---- MODULE Spec2Model ----
(***************************************************************************)
(* MemberSettings (frontend/src/components/member/MemberSettings.tsx):     *)
(* the member's email-update and password-reset form.  Strings are        *)
(* sequences of one-character strings, so that the regular expressions    *)
(* and the substring tests of the component are computed, not assumed.    *)
(***************************************************************************)
EXTENDS Integers, Sequences, FiniteSets, TLC

\* ------------------------------------------------------------------------
\* Characters and string helpers (JavaScript String / RegExp primitives)
\* ------------------------------------------------------------------------
UpperCase == <<"A", "B", "C", "D", "E", "F", "G", "H", "I", "J", "K", "L", "M", "N", "O", "P", "Q", "R", "S", "T", "U", "V", "W", "X", "Y", "Z">>
LowerCase == <<"a", "b", "c", "d", "e", "f", "g", "h", "i", "j", "k", "l", "m", "n", "o", "p", "q", "r", "s", "t", "u", "v", "w", "x", "y", "z">>
Digits == <<"0", "1", "2", "3", "4", "5", "6", "7", "8", "9">>

Range(s) == {s[i] : i \in 1..Len(s)}

\* \d
DigitChars == Range(Digits)

\* [a-zA-Z]
AlphaChars == Range(UpperCase) \cup Range(LowerCase)

\* [a-zA-Z0-9._%+-]
LocalChars == AlphaChars \cup DigitChars \cup {".", "_", "%", "+", "-"}

\* [a-zA-Z0-9.-]
DomainChars == AlphaChars \cup DigitChars \cup {".", "-"}

\* String.prototype.toLowerCase, one character
LowerChar(c) == IF \E i \in 1..Len(UpperCase) : UpperCase[i] = c THEN LowerCase[CHOOSE i \in 1..Len(UpperCase) : UpperCase[i] = c] ELSE c

\* String.prototype.toLowerCase
ToLowerCase(s) == [i \in 1..Len(s) |-> LowerChar(s[i])]

\* String.prototype.includes(pat)
Includes(s, pat) == \E i \in 1..(Len(s) - Len(pat) + 1) : SubSeq(s, i, i + Len(pat) - 1) = pat

\* RegExp /^pat/ .test(s) for a literal pat
StartsWith(s, pat) == Len(s) >= Len(pat) /\ SubSeq(s, 1, Len(pat)) = pat

\* s[from..to] is a run of characters of one class
AllChars(s, from, to, class) == \A i \in from..to : s[i] \in class

\* ------------------------------------------------------------------------
\* Literals of the component
\* ------------------------------------------------------------------------
AtGmailDotCom == <<"@", "g", "m", "a", "i", "l", ".", "c", "o", "m">>
PatTestAt == <<"t", "e", "s", "t", "@">>
PatFakeAt == <<"f", "a", "k", "e", "@">>
PatTempAt == <<"t", "e", "m", "p", "@">>
PatAtTestDot == <<"@", "t", "e", "s", "t", ".">>
PatAtFakeDot == <<"@", "f", "a", "k", "e", ".">>
PatAtExampleDot == <<"@", "e", "x", "a", "m", "p", "l", "e", ".">>
KwExtractMemberId == <<"e", "x", "t", "r", "a", "c", "t", " ", "m", "e", "m", "b", "e", "r", " ", "I", "D">>
KwDatabase == <<"d", "a", "t", "a", "b", "a", "s", "e">>
KwAlreadyExists == <<"a", "l", "r", "e", "a", "d", "y", " ", "e", "x", "i", "s", "t", "s">>
KwTaken == <<"t", "a", "k", "e", "n">>
KwInvalid == <<"i", "n", "v", "a", "l", "i", "d">>
KwRateLimit == <<"r", "a", "t", "e", " ", "l", "i", "m", "i", "t">>
KwNetwork == <<"n", "e", "t", "w", "o", "r", "k">>
KwConnection == <<"c", "o", "n", "n", "e", "c", "t", "i", "o", "n">>
KwNotFound == <<"n", "o", "t", " ", "f", "o", "u", "n", "d">>
MsgExtractFailed == <<"C", "o", "u", "l", "d", " ", "n", "o", "t", " ", "e", "x", "t", "r", "a", "c", "t", " ", "m", "e", "m", "b", "e", "r", " ", "I", "D", " ", "f", "r", "o", "m", " ", "t", "e", "m", "p", "o", "r", "a", "r", "y", " ", "e", "m", "a", "i", "l">>
MsgDbRethrow == <<"F", "a", "i", "l", "e", "d", " ", "t", "o", " ", "u", "p", "d", "a", "t", "e", " ", "e", "m", "a", "i", "l", " ", "i", "n", " ", "d", "a", "t", "a", "b", "a", "s", "e">>

\* ------------------------------------------------------------------------
\* Inputs: the addresses a user types, the member's address at mount, and
\* the error messages a provider call may carry
\* ------------------------------------------------------------------------
Empty == <<>>
EReal == <<"a", "@", "b", ".", "c", "o">>
ETempOne == <<"1", "@", "g", "m", "a", "i", "l", ".", "c", "o", "m">>
ETempTwo == <<"2", "2", "@", "g", "m", "a", "i", "l", ".", "c", "o", "m">>
ETestLocal == <<"t", "e", "s", "t", "@", "b", ".", "c", "o">>
ETestUpper == <<"T", "E", "S", "T", "@", "b", ".", "c", "o">>
EFakeLocal == <<"f", "a", "k", "e", "@", "b", ".", "c", "o">>
ETempLocal == <<"t", "e", "m", "p", "@", "b", ".", "c", "o">>
ETestDomain == <<"a", "@", "t", "e", "s", "t", ".", "c", "o">>
EFakeDomain == <<"a", "@", "f", "a", "k", "e", ".", "c", "o">>
EExampleDomain == <<"a", "@", "E", "x", "a", "m", "p", "l", "e", ".", "c", "o", "m">>
ENoTld == <<"a", "@", "b">>
ETestBare == <<"t", "e", "s", "t", "@">>
ESubTest == <<"a", "@", "b", ".", "t", "e", "s", "t", ".", "c", "o">>
EContest == <<"c", "o", "n", "t", "e", "s", "t", "@", "b", ".", "c", "o">>
ERegularMember == <<"m", "@", "x", ".", "o", "r", "g">>

TypedEmails == {Empty, EReal, ETempOne, ETempTwo, ETestLocal, ETestUpper, EFakeLocal, ETempLocal, ETestDomain, EFakeDomain, EExampleDomain, ENoTld, ETestBare, ESubTest, EContest}

InitialMemberEmails == {ETempOne, ERegularMember, Empty}

MInvalid == <<"i", "n", "v", "a", "l", "i", "d", " ", "i", "n", "p", "u", "t">>
MTaken == <<"e", "m", "a", "i", "l", " ", "t", "a", "k", "e", "n">>
MExists == <<"u", "s", "e", "r", " ", "a", "l", "r", "e", "a", "d", "y", " ", "e", "x", "i", "s", "t", "s">>
MRate == <<"r", "a", "t", "e", " ", "l", "i", "m", "i", "t", " ", "h", "i", "t">>
MNetwork == <<"n", "e", "t", "w", "o", "r", "k", " ", "d", "o", "w", "n">>
MConnection == <<"c", "o", "n", "n", "e", "c", "t", "i", "o", "n", " ", "l", "o", "s", "t">>
MOther == <<"b", "o", "o", "m">>
MInvalidTaken == <<"t", "a", "k", "e", "n", ":", " ", "i", "n", "v", "a", "l", "i", "d">>
MUpperInvalid == <<"I", "n", "v", "a", "l", "i", "d">>
MNotFound == <<"u", "s", "e", "r", " ", "n", "o", "t", " ", "f", "o", "u", "n", "d">>
MDatabase == <<"d", "a", "t", "a", "b", "a", "s", "e", " ", "o", "f", "f", "l", "i", "n", "e">>

\* an error object: error.message is a string or undefined
ErrorOf(msg) == [hasMessage |-> TRUE, message |-> msg]
ErrorNoMessage == [hasMessage |-> FALSE, message |-> Empty]
NoError == [hasMessage |-> FALSE, message |-> Empty]

\* errors of auth.updateEmail, of db.members.update, of
\* supabase.auth.resetPasswordForEmail and of auth.resetPassword
UpdateEmailErrors == {ErrorOf(m) : m \in {MInvalid, MTaken, MExists, MRate, MNetwork, MConnection, MOther, MInvalidTaken, MUpperInvalid, MDatabase, Empty}} \cup {ErrorNoMessage}
DbUpdateErrors == {ErrorOf(m) : m \in {MTaken, MExists, MDatabase, MOther}} \cup {ErrorNoMessage}
ResetForEmailErrors == {ErrorOf(MRate), ErrorNoMessage}
ResetPasswordErrors == {ErrorOf(m) : m \in {MRate, MNotFound, MInvalid, MOther}} \cup {ErrorNoMessage}

\* ------------------------------------------------------------------------
\* Bounds
\* ------------------------------------------------------------------------
\* most handler invocations of one kind suspended at an await at once
MaxInFlight == 2

\* ------------------------------------------------------------------------
\* Pure functions of the component
\* ------------------------------------------------------------------------
\* /^\d+@gmail\.com$/.test(email)
IsTemporaryEmail(email) == LET k == Len(email) - Len(AtGmailDotCom) IN k >= 1 /\ AllChars(email, 1, k, DigitChars) /\ SubSeq(email, k + 1, Len(email)) = AtGmailDotCom

\* email.match(/^(\d+)@gmail\.com$/): the captured group, or null
ExtractMemberIdFromTempEmail(email) ==
  LET ks == {k \in 1..Len(email) : AllChars(email, 1, k, DigitChars) /\ SubSeq(email, k + 1, Len(email)) = AtGmailDotCom}
  IN IF ks = {} THEN [found |-> FALSE, id |-> Empty]
     ELSE [found |-> TRUE, id |-> SubSeq(email, 1, CHOOSE k \in ks : TRUE)]

\* /^[a-zA-Z0-9._%+-]+@[a-zA-Z0-9.-]+\.[a-zA-Z]{2,}$/.test(s)
EmailRegexTest(s) ==
  \E i \in 2..Len(s) : \E j \in (i + 2)..(Len(s) - 2) :
     /\ s[i] = "@"
     /\ AllChars(s, 1, i - 1, LocalChars)
     /\ AllChars(s, i + 1, j - 1, DomainChars)
     /\ s[j] = "."
     /\ AllChars(s, j + 1, Len(s), AlphaChars)

\* the value of the emailValidation state: null, or {isValid, message}
NullValidation == [isNull |-> TRUE, isValid |-> FALSE, message |-> ""]
Validation(ok, msg) == [isNull |-> FALSE, isValid |-> ok, message |-> msg]

\* the invalidPatterns table of validateEmailFormat, in its order
InvalidPatterns ==
  << [anchored |-> TRUE, pat |-> PatTestAt, message |-> "Please use your real email address"],
     [anchored |-> TRUE, pat |-> PatFakeAt, message |-> "Please use your real email address"],
     [anchored |-> TRUE, pat |-> PatTempAt, message |-> "Please use your real email address"],
     [anchored |-> FALSE, pat |-> PatAtTestDot, message |-> "Please use a real domain"],
     [anchored |-> FALSE, pat |-> PatAtFakeDot, message |-> "Please use a real domain"],
     [anchored |-> FALSE, pat |-> PatAtExampleDot, message |-> "Please use a real domain"] >>

\* pattern.test(s) for one entry of the table
PatternTest(p, s) == IF p.anchored THEN StartsWith(s, p.pat) ELSE Includes(s, p.pat)

\* validateEmailFormat testing the patterns against the address as typed,
\* without toLowerCase()
ValidateEmailFormatCaseSensitive(email) ==
  IF email = Empty THEN NullValidation
  ELSE IF ~EmailRegexTest(email) THEN Validation(FALSE, "Invalid email format")
  ELSE LET hits == {i \in 1..Len(InvalidPatterns) : PatternTest(InvalidPatterns[i], email)}
       IN IF hits # {}
          THEN Validation(FALSE, InvalidPatterns[CHOOSE i \in hits : \A h \in hits : i <= h].message)
          ELSE Validation(TRUE, "Valid email format")

\* validateEmailFormat(email): the value it stores in emailValidation
ValidateEmailFormat(email) ==
  IF email = Empty THEN NullValidation
  ELSE IF ~EmailRegexTest(email) THEN Validation(FALSE, "Invalid email format")
  ELSE LET hits == {i \in 1..Len(InvalidPatterns) : PatternTest(InvalidPatterns[i], ToLowerCase(email))}
       IN IF hits # {}
          THEN Validation(FALSE, InvalidPatterns[CHOOSE i \in hits : \A h \in hits : i <= h].message)
          ELSE Validation(TRUE, "Valid email format")

\* a toast description: a fixed text, a text with an address interpolated,
\* or the error's message verbatim
Fixed(text) == [text |-> text, arg |-> Empty]
WithAddress(text, email) == [text |-> text, arg |-> email]
Verbatim(msg) == [text |-> "{error.message}", arg |-> msg]

Toast(title, description, variant) == [title |-> title, description |-> description, variant |-> variant]
NoToast == Toast("", Fixed(""), "none")

\* error.message?.includes(k)
MessageIncludes(error, k) == error.hasMessage /\ Includes(error.message, k)

\* the catch block with the 'already exists'/'taken' test moved before the
\* 'invalid' test on the regular path
EmailUpdateErrorMessageTakenFirst(memberEmail, error) ==
  IF IsTemporaryEmail(memberEmail)
  THEN IF MessageIncludes(error, KwExtractMemberId)
         THEN Fixed("Could not process temporary email. Please contact support.")
       ELSE IF MessageIncludes(error, KwDatabase)
         THEN Fixed("Database update failed. Please contact support.")
       ELSE IF MessageIncludes(error, KwAlreadyExists) \/ MessageIncludes(error, KwTaken)
         THEN Fixed("This email address is already in use. Please choose a different email.")
       ELSE Fixed("Failed to update temporary email. Please contact support if the issue persists.")
  ELSE IF MessageIncludes(error, KwAlreadyExists) \/ MessageIncludes(error, KwTaken)
         THEN Fixed("This email address is already in use. Please choose a different email.")
       ELSE IF MessageIncludes(error, KwInvalid)
         THEN Fixed("The email address format is not accepted. Please use a different email address.")
       ELSE IF MessageIncludes(error, KwRateLimit)
         THEN Fixed("Too many requests. Please wait a few minutes before trying again.")
       ELSE IF MessageIncludes(error, KwNetwork) \/ MessageIncludes(error, KwConnection)
         THEN Fixed("Network error. Please check your connection and try again.")
       ELSE IF error.hasMessage /\ error.message # Empty
         THEN Verbatim(error.message)
       ELSE Fixed("Failed to update email. Please try again.")

\* the errorMessage computed by handleEmailUpdate's catch block
EmailUpdateErrorMessage(memberEmail, error) ==
  IF IsTemporaryEmail(memberEmail)
  THEN IF MessageIncludes(error, KwExtractMemberId)
         THEN Fixed("Could not process temporary email. Please contact support.")
       ELSE IF MessageIncludes(error, KwDatabase)
         THEN Fixed("Database update failed. Please contact support.")
       ELSE IF MessageIncludes(error, KwAlreadyExists) \/ MessageIncludes(error, KwTaken)
         THEN Fixed("This email address is already in use. Please choose a different email.")
       ELSE Fixed("Failed to update temporary email. Please contact support if the issue persists.")
  ELSE IF MessageIncludes(error, KwInvalid)
         THEN Fixed("The email address format is not accepted. Please use a different email address.")
       ELSE IF MessageIncludes(error, KwAlreadyExists) \/ MessageIncludes(error, KwTaken)
         THEN Fixed("This email address is already in use. Please choose a different email.")
       ELSE IF MessageIncludes(error, KwRateLimit)
         THEN Fixed("Too many requests. Please wait a few minutes before trying again.")
       ELSE IF MessageIncludes(error, KwNetwork) \/ MessageIncludes(error, KwConnection)
         THEN Fixed("Network error. Please check your connection and try again.")
       ELSE IF error.hasMessage /\ error.message # Empty
         THEN Verbatim(error.message)
       ELSE Fixed("Failed to update email. Please try again.")

\* the errorMessage computed by handlePasswordReset's catch block
PasswordResetErrorMessage(error) ==
  IF MessageIncludes(error, KwRateLimit)
    THEN Fixed("Too many requests. Please wait a few minutes before trying again.")
  ELSE IF MessageIncludes(error, KwNotFound) \/ MessageIncludes(error, KwInvalid)
    THEN Fixed("Email address not found. Please contact support.")
  ELSE IF error.hasMessage /\ error.message # Empty
    THEN Verbatim(error.message)
  ELSE Fixed("Failed to send password reset email. Please try again.")

\* ------------------------------------------------------------------------
\* State
\* ------------------------------------------------------------------------
VARIABLES
  member,               \* props.member, as last rendered: [email]
  newEmail,             \* useState('')
  emailValidation,      \* useState(null)
  emailUpdateLoading,   \* useState(false)
  passwordResetLoading, \* useState(false)
  emailUpdateStatus,    \* useState('idle')
  updatedEmail,         \* useState('')
  emailReqs,            \* handleEmailUpdate invocations suspended at an await
  pwReqs,               \* handlePasswordReset invocations suspended at an await
  dbEmail,              \* the email column of the member's row, at the backend
  authEmail,            \* the email of the member's auth user, at the provider (no call of the temporary path changes it: "the Supabase Auth user still has the old email")
  lastRun               \* the handler invocation that returned in the last step, if any: its toast and provider calls

vars == <<member, newEmail, emailValidation, emailUpdateLoading, passwordResetLoading, emailUpdateStatus, updatedEmail, emailReqs, pwReqs, dbEmail, authEmail, lastRun>>

emailFormVars == <<newEmail, emailValidation, emailUpdateLoading, emailUpdateStatus, updatedEmail>>

\* one provider call of an invocation: the operation, its argument, its result
Call(op, arg, result) == [op |-> op, arg |-> arg, result |-> result]

\* what a provider call resolves to ({data, error}) or rejects with
NoData == [present |-> FALSE, email |-> Empty]
Ok(data) == [kind |-> "ok", error |-> NoError, data |-> data]
Returned(error) == [kind |-> "error", error |-> error, data |-> NoData]
Threw(error) == [kind |-> "throw", error |-> error, data |-> NoData]
Pending == [kind |-> "pending", error |-> NoError, data |-> NoData]

Failures(errors) == {Returned(e) : e \in errors} \cup {Threw(e) : e \in errors}

\* db.members.update(id, {email}) resolves with the updated row, or without one
DbOutcomes(email) == {Ok([present |-> TRUE, email |-> email]), Ok(NoData)} \cup Failures(DbUpdateErrors)

\* the auth calls resolve with {error} only
AuthOutcomes(errors) == {Ok(NoData)} \cup Failures(errors)

\* an invocation that has returned: the handler, whether it returned early
\* ("rejected") or ran to its finally block ("settled"), the member.email and
\* newEmail of its closure, its provider calls, its toast and the rows it
\* passed to onMemberUpdate
Run(handler, phase, memberEmail, typed, calls, toast, notified) == [handler |-> handler, phase |-> phase, member |-> memberEmail, newEmail |-> typed, calls |-> calls, toast |-> toast, notified |-> notified]
EmailRun(phase, memberEmail, typed, calls, toast, notified) == Run("handleEmailUpdate", phase, memberEmail, typed, calls, toast, notified)
PwRun(phase, memberEmail, calls, toast) == Run("handlePasswordReset", phase, memberEmail, Empty, calls, toast, <<>>)

NoRun == Run("none", "none", Empty, Empty, <<>>, NoToast, <<>>)

RemoveAt(s, i) == SubSeq(s, 1, i - 1) \o SubSeq(s, i + 1, Len(s))

\* the result of the call an invocation is waiting for, filled in
Settle(calls, outcome) == [calls EXCEPT ![Len(calls)].result = outcome]

Init ==
  /\ member \in {[email |-> e] : e \in InitialMemberEmails}
  /\ newEmail = Empty
  /\ emailValidation = NullValidation
  /\ emailUpdateLoading = FALSE
  /\ passwordResetLoading = FALSE
  /\ emailUpdateStatus = "idle"
  /\ updatedEmail = Empty
  /\ emailReqs = <<>>
  /\ pwReqs = <<>>
  /\ dbEmail = member.email
  /\ authEmail = member.email
  /\ lastRun = NoRun

\* ------------------------------------------------------------------------
\* What the component renders
\* ------------------------------------------------------------------------
\* the new-email input: disabled={emailUpdateLoading}
NewEmailInputDisabled == emailUpdateLoading

\* the submit button without emailUpdateLoading in its disabled condition
SubmitDisabledIgnoresLoading == newEmail = Empty \/ (~emailValidation.isNull /\ ~emailValidation.isValid)

\* the submit button: disabled={emailUpdateLoading || !newEmail || emailValidation?.isValid === false}
SubmitDisabled == emailUpdateLoading \/ newEmail = Empty \/ (~emailValidation.isNull /\ ~emailValidation.isValid)

\* the Reset button is rendered only when emailUpdateStatus === 'error'
ResetButtonShown == emailUpdateStatus = "error"

\* the change-password button: disabled={passwordResetLoading}
ChangePasswordDisabled == passwordResetLoading

\* the pending panel is rendered only when emailUpdateStatus === 'pending'
PendingPanelShown == emailUpdateStatus = "pending"

\* the pending panel's title
PendingPanelTitle == IF IsTemporaryEmail(member.email) THEN "Email Updated Successfully!" ELSE "Email Verification Pending"

\* the 'Next Steps' list with updatedEmail and the log-out button
NextStepsShown == PendingPanelShown /\ IsTemporaryEmail(member.email)

\* ------------------------------------------------------------------------
\* handleEmailChange
\* ------------------------------------------------------------------------
\* onChange of the new-email input: setNewEmail, validateEmailFormat, and an
\* 'error' status goes back to 'idle'
HandleEmailChange(email) ==
  /\ ~NewEmailInputDisabled
  /\ newEmail' = email
  /\ emailValidation' = ValidateEmailFormat(email)
  /\ emailUpdateStatus' = IF emailUpdateStatus = "error" THEN "idle" ELSE emailUpdateStatus
  /\ lastRun' = NoRun
  /\ UNCHANGED <<member, emailUpdateLoading, passwordResetLoading, updatedEmail, emailReqs, pwReqs, dbEmail, authEmail>>

\* ------------------------------------------------------------------------
\* handleEmailUpdate
\* ------------------------------------------------------------------------
\* the local checks without `newEmail === member.email`
LocalRejectionWithoutSameCheck(memberEmail, typed) ==
  IF typed = Empty THEN "Please enter a new email address"
  ELSE IF ~EmailRegexTest(typed) THEN "Please enter a valid email address"
  ELSE ""

\* the first two checks of handleEmailUpdate: the toast description of the
\* early return, or "" when the submission goes on
LocalRejection(memberEmail, typed) ==
  IF typed = Empty \/ typed = memberEmail THEN "Please enter a new email address"
  ELSE IF ~EmailRegexTest(typed) THEN "Please enter a valid email address"
  ELSE ""

\* the dispatch with its condition negated
FirstProviderCallNegated(memberEmail) == IF ~IsTemporaryEmail(memberEmail) THEN "db.members.update" ELSE "auth.updateEmail"

\* the provider operation the try block calls first
FirstProviderCall(memberEmail) == IF IsTemporaryEmail(memberEmail) THEN "db.members.update" ELSE "auth.updateEmail"

\* setEmailUpdateLoading(true) before the try block
EmailLoadingAtStart == TRUE

\* a handler without the finally block: emailUpdateLoading stays as it is
EmailFinallyMissing == emailUpdateLoading' = emailUpdateLoading

\* the finally block: setEmailUpdateLoading(false)
EmailFinally == emailUpdateLoading' = FALSE

\* the outer catch block followed by the finally block, for the invocation
\* that captured memberEmail and typed and has made calls
EmailCatch(memberEmail, typed, calls, error, rest) ==
  /\ emailUpdateStatus' = "error"
  /\ EmailFinally
  /\ emailReqs' = rest
  /\ lastRun' = EmailRun("settled", memberEmail, typed, calls, Toast("Error", EmailUpdateErrorMessage(memberEmail, error), "destructive"), <<>>)
  /\ UNCHANGED <<member, newEmail, emailValidation, updatedEmail>>

\* handleEmailUpdate from its call to its first await (or to its return)
HandleEmailUpdate ==
  LET why == LocalRejection(member.email, newEmail)
      op == FirstProviderCall(member.email)
      req == [pc |-> op, member |-> member.email, newEmail |-> newEmail, calls |-> <<Call(op, newEmail, Pending)>>, updatedMember |-> NoData]
  IN /\ IF why # ""
        THEN /\ lastRun' = EmailRun("rejected", member.email, newEmail, <<>>, Toast("Error", Fixed(why), "destructive"), <<>>)
             /\ UNCHANGED <<member, emailFormVars, emailReqs>>
        ELSE IF op = "db.members.update" /\ ~ExtractMemberIdFromTempEmail(member.email).found
        THEN EmailCatch(member.email, newEmail, <<>>, ErrorOf(MsgExtractFailed), emailReqs)
        ELSE /\ emailUpdateLoading' = EmailLoadingAtStart
             /\ emailUpdateStatus' = "idle"
             /\ emailReqs' = Append(emailReqs, req)
             /\ lastRun' = NoRun
             /\ UNCHANGED <<member, newEmail, emailValidation, updatedEmail>>
     /\ UNCHANGED <<passwordResetLoading, pwReqs, dbEmail, authEmail>>

\* a click on the submit button
ClickUpdateEmail ==
  /\ ~SubmitDisabled
  /\ Len(emailReqs) < MaxInFlight
  /\ HandleEmailUpdate

\* the inner try without `if (updateError) throw updateError`: only a
\* rejected promise counts as a failure
DbUpdateSucceededUnlessThrown(outcome) == outcome.kind # "throw"

\* what the inner try does with the result of db.members.update:
\* `if (updateError) throw updateError`, a rejection throws by itself
DbUpdateSucceeded(outcome) == outcome.kind = "ok"

\* db.members.update settles: on success the row holds the new address and
\* the handler goes on to supabase.auth.resetPasswordForEmail(newEmail); on
\* failure the inner catch rethrows Error('Failed to update email in database')
DbMembersUpdateSettles(i, outcome) ==
  /\ i \in 1..Len(emailReqs)
  /\ emailReqs[i].pc = "db.members.update"
  /\ LET req == emailReqs[i]
         calls == Settle(req.calls, outcome)
     IN IF DbUpdateSucceeded(outcome)
        THEN /\ emailReqs' = [emailReqs EXCEPT ![i] = [req EXCEPT !.pc = "auth.resetPasswordForEmail", !.calls = Append(calls, Call("auth.resetPasswordForEmail", req.newEmail, Pending)), !.updatedMember = outcome.data]]
             /\ dbEmail' = IF outcome.kind = "ok" THEN req.newEmail ELSE dbEmail
             /\ lastRun' = NoRun
             /\ UNCHANGED <<member, emailFormVars>>
        ELSE /\ EmailCatch(req.member, req.newEmail, calls, ErrorOf(MsgDbRethrow), RemoveAt(emailReqs, i))
             /\ UNCHANGED dbEmail
  /\ UNCHANGED <<passwordResetLoading, pwReqs, authEmail>>

\* supabase.auth.resetPasswordForEmail settles: its error is only logged;
\* then 'pending', updatedEmail, the success toast, onMemberUpdate(updatedMember)
\* when there is a row, the input is cleared, finally
ResetPasswordForEmailSettles(i, outcome, parentApplies) ==
  /\ i \in 1..Len(emailReqs)
  /\ emailReqs[i].pc = "auth.resetPasswordForEmail"
  /\ LET req == emailReqs[i]
         calls == Settle(req.calls, outcome)
         notified == IF req.updatedMember.present THEN <<req.updatedMember>> ELSE <<>>
     IN /\ emailUpdateStatus' = "pending"
        /\ updatedEmail' = req.newEmail
        /\ member' = IF notified # <<>> /\ parentApplies THEN [email |-> req.updatedMember.email] ELSE member
        /\ newEmail' = Empty
        /\ emailValidation' = NullValidation
        /\ EmailFinally
        /\ emailReqs' = RemoveAt(emailReqs, i)
        /\ lastRun' = EmailRun("settled", req.member, req.newEmail, calls, Toast("Email Updated Successfully", WithAddress("Your email has been updated to {newEmail}. A password setup email has been sent to your new address. Please check your inbox and follow the instructions to complete the setup.", req.newEmail), "default"), notified)
  /\ UNCHANGED <<passwordResetLoading, pwReqs, dbEmail, authEmail>>

\* auth.updateEmail settles: `if (error) throw error`, else 'pending', the
\* verification toast, the input is cleared, finally
AuthUpdateEmailSettles(i, outcome) ==
  /\ i \in 1..Len(emailReqs)
  /\ emailReqs[i].pc = "auth.updateEmail"
  /\ LET req == emailReqs[i]
         calls == Settle(req.calls, outcome)
     IN IF outcome.kind = "ok"
        THEN /\ emailUpdateStatus' = "pending"
             /\ newEmail' = Empty
             /\ emailValidation' = NullValidation
             /\ EmailFinally
             /\ emailReqs' = RemoveAt(emailReqs, i)
             /\ lastRun' = EmailRun("settled", req.member, req.newEmail, calls, Toast("Verification Email Sent", WithAddress("A verification email has been sent to {newEmail}. Please check your inbox and click the verification link to confirm your new email address.", req.newEmail), "default"), <<>>)
             /\ UNCHANGED <<member, updatedEmail>>
        ELSE EmailCatch(req.member, req.newEmail, calls, outcome.error, RemoveAt(emailReqs, i))
  /\ UNCHANGED <<passwordResetLoading, pwReqs, dbEmail, authEmail>>

\* the Reset button's onClick
ClickReset ==
  /\ ResetButtonShown
  /\ emailUpdateStatus' = "idle"
  /\ newEmail' = Empty
  /\ emailValidation' = NullValidation
  /\ updatedEmail' = Empty
  /\ lastRun' = NoRun
  /\ UNCHANGED <<member, emailUpdateLoading, passwordResetLoading, emailReqs, pwReqs, dbEmail, authEmail>>

\* ------------------------------------------------------------------------
\* handlePasswordReset
\* ------------------------------------------------------------------------
\* handlePasswordReset addressing the typed address when there is one
HandlePasswordResetToTypedAddress ==
  /\ IF member.email = Empty
     THEN /\ lastRun' = PwRun("rejected", member.email, <<>>, Toast("Error", Fixed("No email address found for your account"), "destructive"))
          /\ UNCHANGED <<passwordResetLoading, pwReqs>>
     ELSE /\ passwordResetLoading' = TRUE
          /\ pwReqs' = Append(pwReqs, [member |-> member.email, calls |-> <<Call("auth.resetPassword", IF newEmail # Empty THEN newEmail ELSE member.email, Pending)>>])
          /\ lastRun' = NoRun
  /\ UNCHANGED <<member, emailFormVars, emailReqs, dbEmail, authEmail>>

\* the finally block: setPasswordResetLoading(false)
PasswordFinally == passwordResetLoading' = FALSE

\* handlePasswordReset from its call to its await (or to its return)
HandlePasswordReset ==
  /\ IF member.email = Empty
     THEN /\ lastRun' = PwRun("rejected", member.email, <<>>, Toast("Error", Fixed("No email address found for your account"), "destructive"))
          /\ UNCHANGED <<passwordResetLoading, pwReqs>>
     ELSE /\ passwordResetLoading' = TRUE
          /\ pwReqs' = Append(pwReqs, [member |-> member.email, calls |-> <<Call("auth.resetPassword", member.email, Pending)>>])
          /\ lastRun' = NoRun
  /\ UNCHANGED <<member, emailFormVars, emailReqs, dbEmail, authEmail>>

\* a click on the change-password button
ClickChangePassword ==
  /\ ~ChangePasswordDisabled
  /\ Len(pwReqs) < MaxInFlight
  /\ HandlePasswordReset

\* auth.resetPassword settles: `if (error) throw error`, the toast, finally
AuthResetPasswordSettles(i, outcome) ==
  /\ i \in 1..Len(pwReqs)
  /\ LET req == pwReqs[i]
         calls == Settle(req.calls, outcome)
         toast == IF outcome.kind = "ok"
                  THEN Toast("Password Reset Email Sent", WithAddress("A password reset email has been sent to {member.email}. Please check your inbox and follow the instructions to reset your password.", req.member), "default")
                  ELSE Toast("Error", PasswordResetErrorMessage(outcome.error), "destructive")
     IN /\ PasswordFinally
        /\ pwReqs' = RemoveAt(pwReqs, i)
        /\ lastRun' = PwRun("settled", req.member, calls, toast)
  /\ UNCHANGED <<member, emailFormVars, emailReqs, dbEmail, authEmail>>

\* ------------------------------------------------------------------------
\* Specification
\* ------------------------------------------------------------------------
Next ==
  \/ \E email \in TypedEmails : HandleEmailChange(email)
  \/ ClickUpdateEmail
  \/ \E i \in DOMAIN emailReqs : \E outcome \in DbOutcomes(emailReqs[i].newEmail) : DbMembersUpdateSettles(i, outcome)
  \/ \E i \in DOMAIN emailReqs : \E outcome \in AuthOutcomes(ResetForEmailErrors) : \E parentApplies \in BOOLEAN : ResetPasswordForEmailSettles(i, outcome, parentApplies)
  \/ \E i \in DOMAIN emailReqs : \E outcome \in AuthOutcomes(UpdateEmailErrors) : AuthUpdateEmailSettles(i, outcome)
  \/ ClickReset
  \/ ClickChangePassword
  \/ \E i \in DOMAIN pwReqs : \E outcome \in AuthOutcomes(ResetPasswordErrors) : AuthResetPasswordSettles(i, outcome)

Spec == Init /\ [][Next]_vars

\* provider calls settle: the awaited promise of every suspended
\* handleEmailUpdate is eventually resolved or rejected
EmailCallSettles ==
  \/ \E i \in DOMAIN emailReqs : \E outcome \in DbOutcomes(emailReqs[i].newEmail) : DbMembersUpdateSettles(i, outcome)
  \/ \E i \in DOMAIN emailReqs : \E outcome \in AuthOutcomes(ResetForEmailErrors) : \E parentApplies \in BOOLEAN : ResetPasswordForEmailSettles(i, outcome, parentApplies)
  \/ \E i \in DOMAIN emailReqs : \E outcome \in AuthOutcomes(UpdateEmailErrors) : AuthUpdateEmailSettles(i, outcome)

\* and so is that of every suspended handlePasswordReset
PasswordCallSettles == \E i \in DOMAIN pwReqs : \E outcome \in AuthOutcomes(ResetPasswordErrors) : AuthResetPasswordSettles(i, outcome)

FairSpec == Spec /\ WF_vars(EmailCallSettles) /\ WF_vars(PasswordCallSettles)

\* ------------------------------------------------------------------------
\* Properties
\* ------------------------------------------------------------------------
\* a handleEmailUpdate ran to its finally block in the last step
EmailSettled == lastRun.handler = "handleEmailUpdate" /\ lastRun.phase = "settled"

\* the provider-call logs of every handleEmailUpdate in view: the suspended
\* ones and the one that has just settled, each with its closure
EmailLogs == {[member |-> emailReqs[i].member, newEmail |-> emailReqs[i].newEmail, calls |-> emailReqs[i].calls] : i \in DOMAIN emailReqs} \cup (IF EmailSettled THEN {[member |-> lastRun.member, newEmail |-> lastRun.newEmail, calls |-> lastRun.calls]} ELSE {})

CountOf(calls, op) == Cardinality({i \in DOMAIN calls : calls[i].op = op})

Failed(call) == call.result.kind \in {"error", "throw"}

\* C1: a submission that passes the local checks calls, when member.email is
\* a temporary address, db.members.update with the typed address exactly once
\* and never auth.updateEmail; otherwise auth.updateEmail with the typed
\* address exactly once and neither db.members.update nor
\* resetPasswordForEmail; no operation is called twice in one submission.
C1_PathDispatch ==
  \A log \in EmailLogs :
    /\ \A op \in {"db.members.update", "auth.updateEmail", "auth.resetPasswordForEmail"} : CountOf(log.calls, op) <= 1
    /\ IF IsTemporaryEmail(log.member)
       THEN /\ CountOf(log.calls, "db.members.update") = 1
            /\ CountOf(log.calls, "auth.updateEmail") = 0
            /\ log.calls[1] = Call("db.members.update", log.newEmail, log.calls[1].result)
       ELSE /\ CountOf(log.calls, "auth.updateEmail") = 1
            /\ CountOf(log.calls, "db.members.update") = 0
            /\ CountOf(log.calls, "auth.resetPasswordForEmail") = 0
            /\ log.calls[1] = Call("auth.updateEmail", log.newEmail, log.calls[1].result)

\* a temporary-path submission has settled after both of its calls
C1_Witness == EmailSettled /\ IsTemporaryEmail(lastRun.member) /\ Len(lastRun.calls) = 2

\* the addresses C2 calls obviously fake: the lower-cased address starts with
\* test@, fake@ or temp@, or its domain starts with test., fake. or example.
ObviouslyFake(typed) ==
  LET l == ToLowerCase(typed)
      domainStarts(p) == \E i \in 1..Len(l) : l[i] = "@" /\ StartsWith(SubSeq(l, i + 1, Len(l)), p)
  IN \/ \E p \in {PatTestAt, PatFakeAt, PatTempAt} : StartsWith(l, p)
     \/ \E p \in {Tail(PatAtTestDot), Tail(PatAtFakeDot), Tail(PatAtExampleDot)} : domainStarts(p)

\* C2: while an obviously fake address is typed, emailValidation is
\* {isValid: false} and the submit button is disabled; no db.members.update
\* or auth.updateEmail is ever made with such an address.
C2_FakeRejected ==
  /\ ObviouslyFake(newEmail) => ~emailValidation.isNull /\ ~emailValidation.isValid /\ SubmitDisabled
  /\ \A log \in EmailLogs : \A i \in DOMAIN log.calls : log.calls[i].op \in {"db.members.update", "auth.updateEmail"} => ~ObviouslyFake(log.calls[i].arg)

\* an upper-case fake address has been typed
C2_Witness == newEmail = ETestUpper /\ ObviouslyFake(newEmail)

\* C3 (as claimed): a submission ends 'pending' with a non-destructive toast
\* only if every provider call it made returned without error, and ends
\* 'error' with a destructive 'Error' toast if any of them failed.
C3_ReportsEveryProviderResult ==
  EmailSettled =>
    /\ (emailUpdateStatus = "pending" /\ lastRun.toast.variant # "destructive") => \A i \in DOMAIN lastRun.calls : ~Failed(lastRun.calls[i])
    /\ (\E i \in DOMAIN lastRun.calls : Failed(lastRun.calls[i])) => emailUpdateStatus = "error" /\ lastRun.toast.title = "Error" /\ lastRun.toast.variant = "destructive"

\* C4: while a handleEmailUpdate is suspended, emailUpdateLoading is true, the
\* submit button and the new-email input are disabled, newEmail is still the
\* submitted address, and it is the only one suspended.
C4_OneRequestInFlight ==
  /\ Len(emailReqs) <= 1
  /\ emailReqs # <<>> => emailUpdateLoading /\ SubmitDisabled /\ NewEmailInputDisabled /\ newEmail = emailReqs[1].newEmail

\* an email update is in flight, waiting for its second provider call
C4_Witness == Len(emailReqs) = 1 /\ emailReqs[1].pc = "auth.resetPasswordForEmail"

\* C5 (as claimed): after a successful replacement of a temporary address the
\* member's row and the auth user both hold the submitted address.
C5_ReplacedEverywhere ==
  (EmailSettled /\ IsTemporaryEmail(lastRun.member) /\ emailUpdateStatus = "pending") => dbEmail = lastRun.newEmail /\ authEmail = lastRun.newEmail

\* the classification C6 states, in its order: the keywords of each row and
\* the description shown for the first row with a keyword in the message
C6_Rows ==
  << [keys |-> {KwInvalid}, text |-> "The email address format is not accepted. Please use a different email address."],
     [keys |-> {KwAlreadyExists, KwTaken}, text |-> "This email address is already in use. Please choose a different email."],
     [keys |-> {KwRateLimit}, text |-> "Too many requests. Please wait a few minutes before trying again."],
     [keys |-> {KwNetwork, KwConnection}, text |-> "Network error. Please check your connection and try again."] >>

C6_Description(error) ==
  LET msg == IF error.hasMessage THEN error.message ELSE Empty
      hits == {r \in DOMAIN C6_Rows : \E k \in C6_Rows[r].keys : Includes(msg, k)}
  IN IF hits # {} THEN Fixed(C6_Rows[CHOOSE r \in hits : \A h \in hits : r <= h].text)
     ELSE IF msg # Empty THEN Verbatim(msg)
     ELSE Fixed("Failed to update email. Please try again.")

\* auth.updateEmail of the regular path has just failed
RegularUpdateFailed == EmailSettled /\ ~IsTemporaryEmail(lastRun.member) /\ Len(lastRun.calls) = 1 /\ Failed(lastRun.calls[1])

\* C6: when auth.updateEmail fails on the regular path, the destructive toast
\* carries the description of the first matching row: 'invalid', then
\* 'already exists'/'taken', then 'rate limit', then 'network'/'connection',
\* then the message itself, and the default text when there is no message.
C6_RegularErrorClassification ==
  RegularUpdateFailed => lastRun.toast = Toast("Error", C6_Description(lastRun.calls[1].result.error), "destructive")

\* the failure's message matches two rows, 'taken' before 'invalid' in the text
C6_Witness == RegularUpdateFailed /\ lastRun.calls[1].result.error = ErrorOf(MInvalidTaken)

\* db.members.update of the temporary path has just failed
TemporaryDbUpdateFailed == EmailSettled /\ IsTemporaryEmail(lastRun.member) /\ Len(lastRun.calls) >= 1 /\ lastRun.calls[1].op = "db.members.update" /\ Failed(lastRun.calls[1])

\* C7 (as claimed): when db.members.update fails with a message containing
\* 'already exists' or 'taken' the toast says the address is already in use;
\* 'Database update failed...' is shown only for a message that mentions
\* 'database', and 'Could not process temporary email...' only when the
\* member ID could not be extracted.
C7_TemporaryErrorClassification ==
  TemporaryDbUpdateFailed =>
    LET error == lastRun.calls[1].result.error
        shown == lastRun.toast.description
    IN /\ (MessageIncludes(error, KwAlreadyExists) \/ MessageIncludes(error, KwTaken)) => shown = Fixed("This email address is already in use. Please choose a different email.")
       /\ shown = Fixed("Database update failed. Please contact support.") => MessageIncludes(error, KwDatabase)
       /\ shown = Fixed("Could not process temporary email. Please contact support.") => ~ExtractMemberIdFromTempEmail(lastRun.member).found

\* C8, in every state: resetPasswordForEmail is the second call and follows a
\* db.members.update that returned without error; after a failed
\* db.members.update there is no reset call, no onMemberUpdate, and the status
\* is 'error'; onMemberUpdate is called at most once, after a successful
\* db.members.update, with the row it returned.
C8_State ==
  /\ \A log \in EmailLogs : \A i \in DOMAIN log.calls :
        log.calls[i].op = "auth.resetPasswordForEmail" => i = 2 /\ log.calls[1].op = "db.members.update" /\ log.calls[1].result.kind = "ok"
  /\ TemporaryDbUpdateFailed => Len(lastRun.calls) = 1 /\ lastRun.notified = <<>> /\ emailUpdateStatus = "error"
  /\ lastRun.handler = "handleEmailUpdate" /\ lastRun.notified # <<>> =>
        /\ Len(lastRun.notified) = 1
        /\ lastRun.calls[1].op = "db.members.update"
        /\ lastRun.calls[1].result.kind = "ok"
        /\ lastRun.calls[1].result.data.present
        /\ lastRun.notified[1] = lastRun.calls[1].result.data

\* C8, in every step: the step in which db.members.update fails leaves
\* updatedEmail and newEmail as they were.
C8_Step == (lastRun' # lastRun /\ TemporaryDbUpdateFailed') => updatedEmail' = updatedEmail /\ newEmail' = newEmail /\ newEmail = lastRun'.newEmail

\* C8: the ordering on the temporary-email path.
C8_TemporaryPathOrdering == []C8_State /\ [][C8_Step]_vars

\* db.members.update returned an error for a temporary member
C8_Witness == TemporaryDbUpdateFailed /\ lastRun.calls[1].result.kind = "error" /\ newEmail = lastRun.newEmail /\ newEmail # Empty

\* C9 (as claimed): after a successful replacement that the parent applied,
\* the pending panel shows 'Email Updated Successfully!' and the Next Steps.
C9_PendingPanelAfterReplacement ==
  (EmailSettled /\ IsTemporaryEmail(lastRun.member) /\ emailUpdateStatus = "pending" /\ lastRun.notified # <<>> /\ member.email = lastRun.newEmail) =>
     PendingPanelShown /\ PendingPanelTitle = "Email Updated Successfully!" /\ NextStepsShown

\* C10: once provider calls settle, a loading flag that is true becomes
\* false again, for handleEmailUpdate and for handlePasswordReset.
C10_LoadingFlagsReturn == (emailUpdateLoading ~> ~emailUpdateLoading) /\ (passwordResetLoading ~> ~passwordResetLoading)

\* both handlers are suspended with their loading flags set
C10_Witness == emailUpdateLoading /\ passwordResetLoading /\ emailReqs # <<>> /\ pwReqs # <<>>

\* ------------------------------------------------------------------------
\* handleEmailUpdate called on any rendered state
\* ------------------------------------------------------------------------
\* handleEmailUpdate called without the submit button's disabled condition in
\* the way: the handler's own checks are then all that stands before the
\* provider calls
InvokeHandleEmailUpdate ==
  /\ Len(emailReqs) < MaxInFlight
  /\ HandleEmailUpdate

\* the addresses typed and the provider errors of this specification
InvokedTypedEmails == {Empty, EReal, ETempOne, ETestLocal, ENoTld}
InvokedErrors == {ErrorOf(MOther)}

\* the email form alone
NextInvoked ==
  \/ \E email \in InvokedTypedEmails : HandleEmailChange(email)
  \/ InvokeHandleEmailUpdate
  \/ \E i \in DOMAIN emailReqs : \E outcome \in {Ok([present |-> TRUE, email |-> emailReqs[i].newEmail])} \cup Failures(InvokedErrors) : DbMembersUpdateSettles(i, outcome)
  \/ \E i \in DOMAIN emailReqs : \E outcome \in AuthOutcomes(InvokedErrors) : \E parentApplies \in BOOLEAN : ResetPasswordForEmailSettles(i, outcome, parentApplies)
  \/ \E i \in DOMAIN emailReqs : \E outcome \in AuthOutcomes(InvokedErrors) : AuthUpdateEmailSettles(i, outcome)
  \/ ClickReset

HandlerSpec == Init /\ [][NextInvoked]_vars

\* the inputs C11 names: newEmail empty, equal to member.email, or not
\* matching the basic format regex
C11_LocallyInvalid(memberEmail, typed) == typed = Empty \/ typed = memberEmail \/ ~EmailRegexTest(typed)

\* C11, in every step: handleEmailUpdate invoked with such an input shows a
\* destructive 'Error' toast and returns; it makes no provider call, does not
\* call onMemberUpdate, and leaves emailUpdateLoading, emailUpdateStatus,
\* newEmail, emailValidation and updatedEmail (and everything else) as they were.
C11_Step ==
  (HandleEmailUpdate /\ C11_LocallyInvalid(member.email, newEmail)) =>
     /\ lastRun'.handler = "handleEmailUpdate" /\ lastRun'.phase = "rejected"
     /\ lastRun'.toast.title = "Error" /\ lastRun'.toast.variant = "destructive"
     /\ lastRun'.calls = <<>> /\ lastRun'.notified = <<>>
     /\ UNCHANGED <<emailUpdateLoading, emailUpdateStatus, newEmail, emailValidation, updatedEmail>>
     /\ UNCHANGED <<member, passwordResetLoading, emailReqs, pwReqs, dbEmail, authEmail>>

\* C11, in every state: no submission that went on to a provider call had
\* such an input.
C11_State == \A log \in EmailLogs : ~C11_LocallyInvalid(log.member, log.newEmail)

\* C11: local rejection leaves the state untouched.
C11_LocalRejectionFrame == []C11_State /\ [][C11_Step]_vars

\* an address without a top-level domain was rejected by the handler itself
C11_Witness == lastRun.handler = "handleEmailUpdate" /\ lastRun.phase = "rejected" /\ lastRun.newEmail = ENoTld /\ newEmail = ENoTld /\ lastRun.toast.description = Fixed("Please enter a valid email address")

\* a handlePasswordReset returned in the last step
PasswordReturned == lastRun.handler = "handlePasswordReset"

\* C12, in every state: a handlePasswordReset that returned early had an
\* empty member.email and made no call; one that went on made exactly one
\* call, auth.resetPassword with the member.email of its closure.
C12_State ==
  /\ \A i \in DOMAIN pwReqs : pwReqs[i].member # Empty /\ pwReqs[i].calls = <<Call("auth.resetPassword", pwReqs[i].member, Pending)>>
  /\ PasswordReturned /\ lastRun.phase = "rejected" =>
        lastRun.member = Empty /\ lastRun.calls = <<>> /\ lastRun.toast.title = "Error" /\ lastRun.toast.variant = "destructive"
  /\ PasswordReturned /\ lastRun.phase = "settled" =>
        lastRun.member # Empty /\ Len(lastRun.calls) = 1 /\ lastRun.calls[1].op = "auth.resetPassword" /\ lastRun.calls[1].arg = lastRun.member

\* C12, in every step: handlePasswordReset with an empty member.email leaves
\* passwordResetLoading alone and suspends nothing; otherwise its one call is
\* addressed to the current member.email; and no step of handlePasswordReset,
\* its start or its resumption, changes newEmail, emailValidation,
\* emailUpdateStatus, emailUpdateLoading or updatedEmail.
C12_Step ==
  /\ HandlePasswordReset /\ member.email = Empty => UNCHANGED <<passwordResetLoading, pwReqs>> /\ lastRun'.handler = "handlePasswordReset" /\ lastRun'.phase = "rejected"
  /\ HandlePasswordReset /\ member.email # Empty => Len(pwReqs') = Len(pwReqs) + 1 /\ pwReqs'[Len(pwReqs')].calls = <<Call("auth.resetPassword", member.email, Pending)>>
  /\ (HandlePasswordReset \/ pwReqs' # pwReqs \/ (lastRun' # lastRun /\ PasswordReturned')) => UNCHANGED <<newEmail, emailValidation, emailUpdateStatus, emailUpdateLoading, updatedEmail>>

\* C12: handlePasswordReset calls auth.resetPassword(member.email) once, or
\* nothing when member.email is empty, and leaves the email form alone.
C12_PasswordResetFrame == []C12_State /\ [][C12_Step]_vars

\* a password reset is in flight while an email update to another, typed
\* address is in flight too
C12_Witness == pwReqs # <<>> /\ emailReqs # <<>> /\ newEmail # Empty /\ newEmail # member.email /\ pwReqs[1].calls[1].arg = member.email

====
